---------------------------- MODULE Spec2Model ----------------------------
(***************************************************************************)
(* Address geocoding pipeline: postcode extraction, the persistent lookup  *)
(* cache, the retrying provider client, the postcode-first fallback and    *)
(* the batch drivers of main.py, 00.basic_model.py and                     *)
(* 01.advanced_model.py.                                                   *)
(*                                                                         *)
(* Strings the program inspects character by character (addresses,        *)
(* postcodes, provider queries) are sequences of one-character strings.    *)
(* Python's None is written None for a coordinate component and            *)
(* NoPostcode (the empty sequence) for a missing postcode; the postcode    *)
(* pattern never matches the empty string, so the two are not confused.    *)
(* Latitudes and longitudes are drawn from a few representative values,    *)
(* written as their decimal text; "0.0" is the float Python treats as      *)
(* false.                                                                  *)
(***************************************************************************)
EXTENDS Integers, Sequences, FiniteSets, TLC

(***************************************************************************)
(* Bounds of the model and configured values.                              *)
(***************************************************************************)
\* longest input file (rows of the CSV) explored
MaxRows == 2

\* [Geocoding] max_retries of geocoding_config.ini
MAX_RETRIES == 3

\* [Geocoding] rate_limit of geocoding_config.ini, in seconds
RATE_LIMIT == 2

\* longest address text explored character by character
MaxLen == 7

(***************************************************************************)
(* Characters and the postcode pattern of extract_postcode.                *)
(***************************************************************************)
UpperLetters ==
    {"A","B","C","D","E","F","G","H","I","J","K","L","M",
     "N","O","P","Q","R","S","T","U","V","W","X","Y","Z"}

LowerLetters ==
    {"a","b","c","d","e","f","g","h","i","j","k","l","m",
     "n","o","p","q","r","s","t","u","v","w","x","y","z"}

Digits == {"0","1","2","3","4","5","6","7","8","9"}

\* [ABD-HJLNP-UW-Z]
FinalLetters == UpperLetters \ {"C","I","K","M","O","V"}

\* \w, the characters between which \b finds no boundary
WordChars == UpperLetters \cup LowerLetters \cup Digits \cup {"_"}

None == "None"

NoPostcode == <<>>

\* \b at the gap before position k of s (k = Len(s) + 1 is the end)
WordBoundary(s, k) ==
    LET before == k > 1 /\ s[k - 1] \in WordChars
        after  == k <= Len(s) /\ s[k] \in WordChars
    IN  before # after

\* the pattern with n leading letters (1 or 2) and o optional characters
\* (0 or 1) matches s from position k
MatchesAt(s, k, n, o) ==
    LET d    == k + n          \* the digit of the outward part
        sp   == d + o + 1      \* the space
        last == sp + 3
    IN  /\ last <= Len(s)
        /\ WordBoundary(s, k)
        /\ \A j \in k..(k + n - 1) : s[j] \in UpperLetters
        /\ s[d] \in Digits
        /\ o = 1 => s[d + 1] \in UpperLetters \cup Digits
        /\ s[sp] = " "
        /\ s[sp + 1] \in Digits
        /\ s[sp + 2] \in FinalLetters
        /\ s[last] \in FinalLetters
        /\ WordBoundary(s, last + 1)

\* length of the match the regex engine finds from position k (greedy
\* quantifiers first, then backtracking), 0 when there is none
MatchLength(s, k) ==
    IF      MatchesAt(s, k, 2, 1) THEN 8
    ELSE IF MatchesAt(s, k, 2, 0) THEN 7
    ELSE IF MatchesAt(s, k, 1, 1) THEN 7
    ELSE IF MatchesAt(s, k, 1, 0) THEN 6
    ELSE 0

\* the last match of the pattern instead of the first
extract_last_postcode(address) ==
    LET starts == {k \in 1..Len(address) : MatchLength(address, k) > 0}
    IN  IF starts = {} THEN NoPostcode
        ELSE LET k == CHOOSE m \in starts : \A x \in starts : x <= m
             IN  SubSeq(address, k, k + MatchLength(address, k) - 1)

\* re.search(pattern, address): the match that starts first, None without
\* one
extract_postcode(address) ==
    LET starts == {k \in 1..Len(address) : MatchLength(address, k) > 0}
    IN  IF starts = {} THEN NoPostcode
        ELSE LET k == CHOOSE m \in starts : \A x \in starts : m <= x
             IN  SubSeq(address, k, k + MatchLength(address, k) - 1)

(***************************************************************************)
(* Inputs.                                                                 *)
(***************************************************************************)
\* "E1 1EE": an address that is nothing but its postcode
AddrBarePostcode == <<"E","1"," ","1","E","E">>

\* "9 E1 1EE": an address holding the same postcode
AddrWithPostcode == <<"9"," ","E","1"," ","1","E","E">>

\* "E1 1EC": the final pair holds an excluded letter, so no postcode
AddrNoPostcode == <<"E","1"," ","1","E","C">>

Addresses == {AddrBarePostcode, AddrWithPostcode, AddrNoPostcode}

Postcodes == {extract_postcode(a) : a \in Addresses} \ {NoPostcode}

Row(address) == [address |-> address, postcode |-> extract_postcode(address)]

Inputs == UNION {[1..n -> {Row(a) : a \in Addresses}] : n \in 1..MaxRows}

NonePair == <<None, None>>

\* coordinate pairs the provider may report
Points == {<<"51.5", "-0.1">>, <<"51.5", "0.0">>}

Truthy(x) == x # None /\ x # "0.0"

Match(p) == [kind |-> "match", point |-> p]

NoMatch == [kind |-> "nomatch", point |-> NonePair]

\* GeocoderTimedOut or GeocoderServiceError
Transient == [kind |-> "transient", point |-> NonePair]

Responses == {Match(p) : p \in Points} \cup {NoMatch, Transient}

\* GeocoderQueryError, the provider's answer to a query it finds malformed;
\* geopy derives it from GeocoderServiceError
Structural == [kind |-> "structural", point |-> NonePair]

(***************************************************************************)
(* The cache and its backing file.                                         *)
(***************************************************************************)
EmptyCache == [k \in {} |-> NonePair]

\* geocode_cache[location] = result
CachePut(cache, location, result) ==
    [k \in DOMAIN cache \cup {location} |->
        IF k = location THEN result ELSE cache[k]]

\* the file after pickle.dump(geocode_cache, f): one item per entry
save_cache(cache) ==
    [status |-> "ok", items |-> {<<k, cache[k]>> : k \in DOMAIN cache}]

MissingFile == [status |-> "missing", items |-> {}]

\* a file whose bytes the loader cannot decode
CorruptFile == [status |-> "corrupt", items |-> {}]

\* what the loader returns for a file it can decode
Decoded(file) ==
    [k \in {it[1] : it \in file.items} |->
        (CHOOSE it \in file.items : it[1] = k)[2]]

\* load_cache of main.py: FileNotFoundError and any other exception of
\* pickle.load give the empty cache
load_cache(file) ==
    IF file.status \in {"missing", "corrupt"} THEN EmptyCache
    ELSE Decoded(file)

\* the loaders of 00.basic_model.py and 01.advanced_model.py catch
\* FileNotFoundError only: the decoding error of a corrupt file escapes
LoadRaises(file) == file.status = "corrupt"

\* clean_cache keeping only the entries whose components are true values
CleanedCacheTruthy(cache) ==
    LET keep == {k \in DOMAIN cache : Truthy(cache[k][1]) /\ Truthy(cache[k][2])}
    IN  [k \in keep |-> cache[k]]

\* clean_cache looking at the latitude only
CleanedCacheLatOnly(cache) ==
    LET keep == {k \in DOMAIN cache : cache[k][1] # None}
    IN  [k \in keep |-> cache[k]]

\* the dict comprehension of clean_cache
CleanedCache(cache) ==
    LET keep == {k \in DOMAIN cache : cache[k][1] # None /\ cache[k][2] # None}
    IN  [k \in keep |-> cache[k]]

\* values a cache file left by an earlier run may hold
StoredValues == Points \cup {NonePair, <<"51.5", None>>}

\* cache files found at start: none, an unreadable one, or one holding one
\* entry
InitialFiles ==
    {MissingFile, CorruptFile} \cup
    {save_cache(CachePut(EmptyCache, AddrBarePostcode, v)) : v \in StoredValues}

(***************************************************************************)
(* The provider query and the retry policy of geocode.                     *)
(***************************************************************************)
\* the region qualifier added to every query
QueryAlwaysQualified(location, is_postcode) ==
    location \o <<",", " ", "U", "K">>

\* f"{location}, UK" for a postcode, the location itself otherwise
Query(location, is_postcode) ==
    IF is_postcode THEN location \o <<",", " ", "U", "K">> ELSE location

Queries ==
    {Query(p, TRUE) : p \in Postcodes} \cup {Query(a, FALSE) : a \in Addresses}

\* a falsy provider result taken for a failure and tried again
CaughtOrNoMatch(response) ==
    response.kind \in {"transient", "structural", "nomatch"}

\* except (GeocoderTimedOut, GeocoderServiceError): the clause catches the
\* transient errors and every other GeocoderServiceError
Caught(response) == response.kind \in {"transient", "structural"}

\* the last attempt taken two passes too late
LastAttemptTwoLate(attempt, retries) == attempt = retries + 1

\* the last attempt taken one pass too late
LastAttemptOffByOne(attempt, retries) == attempt = retries

\* attempt == MAX_RETRIES - 1
LastAttempt(attempt, retries) == attempt = retries - 1

\* time.sleep(2 ** attempt)
Backoff(attempt) == 2 ^ attempt

\* geocode forgetting to store its result
CacheNever(cache, location, response) == cache

\* main.py caches only a match ("Only cache non-null results")
CacheAfterAttempt(cache, location, response) ==
    IF response.kind = "match" THEN CachePut(cache, location, response.point)
    ELSE cache

\* 00.basic_model.py caches whatever the provider answered
BasicCacheAfterAttempt(cache, location, response) ==
    IF response.kind \in {"match", "nomatch"}
    THEN CachePut(cache, location, response.point)
    ELSE cache

\* "if lat and lon" of geocode_with_fallback
Usable(lat, lon) == Truthy(lat) /\ Truthy(lon)

\* "if row['postcode']" of geocode_with_fallback
HasPostcode(row) == row.postcode # NoPostcode

(***************************************************************************)
(* State.                                                                  *)
(***************************************************************************)
VARIABLES
    df,             \* the input rows, each with its extracted postcode
    provider,       \* the answers the provider may give to each query
    geocode_cache,  \* the in-memory cache of the main process
    cache_file,     \* the cache file on disk
    results,        \* the (lat, lon) pairs appended so far
    pc,             \* where the main process is
    index,          \* the row the loop is at
    frame,          \* the geocode call in progress
    ret,            \* the value the last geocode call returned
    lookups,        \* the geocode calls finished for the current row
    provider_log,   \* the provider attempts made for the current row
    recent,         \* ages of the provider attempts of the last RATE_LIMIT
    calls,          \* provider attempts made in the current run
    run,            \* 1 for the first batch run, 2 for the second
    first_results,  \* the output of the first run
    first_calls,    \* provider attempts the first run made
    first_unmatched, \* a provider attempt of the first run found no match
    workers,        \* 01.advanced_model.py: the pool's worker processes
    next_task,      \* the next chunk the pool hands to an idle worker
    returned,       \* what process_chunk returned for each finished chunk
    gathered,       \* the chunk results main has taken from pool.imap
    asked,          \* provider attempts made for each cache key, by all workers
    computed        \* the pair geocode_with_fallback returned for each row

vars ==
    <<df, provider, geocode_cache, cache_file, results, pc, index, frame, ret,
      lookups, provider_log, recent, calls, run, first_results, first_calls,
      first_unmatched, workers, next_task, returned, gathered, asked,
      computed>>

\* the state of the pool of 01.advanced_model.py
pool_vars == <<workers, next_task, returned, gathered, asked, computed>>

\* the state only the sequential programs use
loop_vars ==
    <<geocode_cache, results, pc, index, frame, ret, lookups, provider_log,
      calls, run, first_results, first_calls, first_unmatched>>

NoFrame ==
    [location |-> <<>>, is_postcode |-> FALSE, attempt |-> 0,
     responses |-> <<>>, delays |-> <<>>]

NewFrame(location, is_postcode) ==
    [location |-> location, is_postcode |-> is_postcode, attempt |-> 0,
     responses |-> <<>>, delays |-> <<>>]

\* the record kept of a finished geocode call
Lookup(f, result, hit) ==
    [location |-> f.location, is_postcode |-> f.is_postcode,
     result |-> result, hit |-> hit,
     responses |-> f.responses, delays |-> f.delays]

\* ages after d more clock units; attempts older than the window are dropped
Elapse(ages, d) ==
    SelectSeq([k \in 1..Len(ages) |-> ages[k] + d], LAMBDA a : a < RATE_LIMIT)

(***************************************************************************)
(* main.py: the geocoding loop of main, geocode_with_fallback and geocode. *)
(***************************************************************************)
\* geocode is entered, after the lookups `done` of the same row: a cached
\* location returns at once
EnterGeocode(location, is_postcode, done) ==
    IF location \in DOMAIN geocode_cache
    THEN /\ ret' = geocode_cache[location]
         /\ lookups' = Append(done,
                Lookup(NewFrame(location, is_postcode),
                       geocode_cache[location], TRUE))
         /\ frame' = NoFrame
         /\ pc' = "returned"
    ELSE /\ frame' = NewFrame(location, is_postcode)
         /\ lookups' = done
         /\ pc' = "attempt"
         /\ UNCHANGED ret

\* the loop takes the next row and geocode_with_fallback makes its first
\* lookup: the postcode when the row has one, the address otherwise
BeginRow ==
    /\ UNCHANGED pool_vars
    /\ pc = "loop"
    /\ index <= Len(df)
    /\ LET row == df[index]
       IN  IF HasPostcode(row)
           THEN EnterGeocode(row.postcode, TRUE, <<>>)
           ELSE EnterGeocode(row.address, FALSE, <<>>)
    /\ provider_log' = <<>>
    /\ UNCHANGED <<df, provider, geocode_cache, cache_file, results, index,
                   recent, calls, run, first_results, first_calls,
                   first_unmatched>>

\* one pass of the retry loop of geocode: the provider is asked once (its
\* answer comes within the clock's resolution); a match is cached and
\* returned, a no-match returns the absent pair, a caught error sleeps and
\* retries or, on the last attempt, returns the absent pair.
\* keep_nomatch tells 00.basic_model.py, which caches a no-match too, from
\* main.py
Attempt(retries, keep_nomatch) ==
    /\ UNCHANGED pool_vars
    /\ pc = "attempt"
    /\ \E response \in provider[Query(frame.location, frame.is_postcode)] :
        LET issued == Append(recent, 0)
            f     == [frame EXCEPT !.responses = Append(@, response.kind)]
            retry == /\ Caught(response)
                     /\ ~LastAttempt(frame.attempt, retries)
        IN  /\ provider_log' = Append(provider_log,
                    [query |-> Query(frame.location, frame.is_postcode),
                     location |-> frame.location,
                     is_postcode |-> frame.is_postcode])
            /\ calls' = calls + 1
            /\ first_unmatched' =
                    IF run = 1 /\ response.kind # "match"
                    THEN TRUE ELSE first_unmatched
            /\ geocode_cache' =
                    IF keep_nomatch
                    THEN BasicCacheAfterAttempt(geocode_cache, frame.location, response)
                    ELSE CacheAfterAttempt(geocode_cache, frame.location, response)
            /\ IF retry
               THEN /\ recent' = Elapse(issued, Backoff(frame.attempt))
                    /\ frame' = [f EXCEPT
                            !.attempt = @ + 1,
                            !.delays = Append(@, Backoff(frame.attempt))]
                    /\ UNCHANGED <<ret, lookups, pc>>
               ELSE /\ recent' = issued
                    /\ ret' = response.point
                    /\ lookups' = Append(lookups, Lookup(f, response.point, FALSE))
                    /\ frame' = NoFrame
                    /\ pc' = "returned"
    /\ UNCHANGED <<df, provider, cache_file, results, index, run, first_results,
                   first_calls>>

geocode == Attempt(MAX_RETRIES, FALSE)

\* geocode_with_fallback after a lookup returned: a postcode result that is
\* not usable falls back to the address; otherwise the result is the row's
\* and main appends it
AfterLookup ==
    /\ UNCHANGED pool_vars
    /\ pc = "returned"
    /\ LET last == lookups[Len(lookups)]
       IN  IF last.is_postcode /\ ~Usable(ret[1], ret[2])
           THEN /\ EnterGeocode(df[index].address, FALSE, lookups)
                /\ UNCHANGED results
           ELSE /\ results' = Append(results, <<ret[1], ret[2]>>)
                /\ pc' = "pause"
                /\ UNCHANGED <<frame, ret, lookups>>
    /\ UNCHANGED <<df, provider, geocode_cache, cache_file, index, provider_log,
                   recent, calls, run, first_results, first_calls,
                   first_unmatched>>

\* time.sleep(RATE_LIMIT) at the end of the loop body
Pause ==
    /\ UNCHANGED pool_vars
    /\ pc = "pause"
    /\ recent' = Elapse(recent, RATE_LIMIT)
    /\ index' = index + 1
    /\ pc' = "loop"
    /\ UNCHANGED <<df, provider, geocode_cache, cache_file, results, frame, ret,
                   lookups, provider_log, calls, run, first_results,
                   first_calls, first_unmatched>>

\* the loop is over: main saves the cache and writes the output
Finish ==
    /\ UNCHANGED pool_vars
    /\ pc = "loop"
    /\ index > Len(df)
    /\ cache_file' = save_cache(geocode_cache)
    /\ pc' = "done"
    /\ UNCHANGED <<df, provider, geocode_cache, results, index, frame, ret,
                   lookups, provider_log, recent, calls, run, first_results,
                   first_calls, first_unmatched>>

\* KeyboardInterrupt, or an exception geocode does not catch, while the loop
\* runs: nothing of main catches it and the process ends
Interrupt ==
    /\ UNCHANGED pool_vars
    /\ pc \in {"attempt", "returned", "pause"}
    /\ pc' = "aborted"
    /\ frame' = NoFrame
    /\ ret' = NonePair
    /\ lookups' = <<>>
    /\ provider_log' = <<>>
    /\ recent' = <<>>
    /\ UNCHANGED <<df, provider, geocode_cache, cache_file, results, index,
                   calls, run, first_results, first_calls,
                   first_unmatched>>

\* clean_cache, called between two rows or after the run
clean_cache ==
    /\ UNCHANGED pool_vars
    /\ pc \in {"loop", "done"}
    /\ geocode_cache' = CleanedCache(geocode_cache)
    /\ cache_file' = save_cache(geocode_cache')
    /\ UNCHANGED <<df, provider, results, pc, index, frame, ret, lookups,
                   provider_log, recent, calls, run, first_results,
                   first_calls, first_unmatched>>

\* the program is started again on the same input: the cache is loaded
\* from the file the first run saved
Rerun ==
    /\ UNCHANGED pool_vars
    /\ pc = "done"
    /\ run = 1
    /\ run' = 2
    /\ first_results' = results
    /\ first_calls' = calls
    /\ geocode_cache' = load_cache(cache_file)
    /\ results' = <<>>
    /\ index' = 1
    /\ calls' = 0
    /\ recent' = <<>>
    /\ lookups' = <<>>
    /\ provider_log' = <<>>
    /\ pc' = "loop"
    /\ UNCHANGED <<df, provider, cache_file, frame, ret, first_unmatched>>

\* the state main's loop starts from: the CSV is read, the postcodes are
\* extracted and the cache is loaded
InitRun(answers) ==
    /\ df \in Inputs
    /\ provider = answers
    /\ cache_file \in InitialFiles
    /\ geocode_cache = load_cache(cache_file)
    /\ results = <<>>
    /\ pc = "loop"
    /\ index = 1
    /\ frame = NoFrame
    /\ ret = NonePair
    /\ lookups = <<>>
    /\ provider_log = <<>>
    /\ recent = <<>>
    /\ calls = 0
    /\ run = 1
    /\ first_results = <<>>
    /\ first_calls = 0
    /\ first_unmatched = FALSE
    /\ workers = <<>>
    /\ next_task = 0
    /\ returned = <<>>
    /\ gathered = <<>>
    /\ asked = <<>>
    /\ computed = <<>>

\* a provider free to answer every attempt in any way
AnyAnswer == [q \in Queries |-> Responses]

\* providers that answer each query the same way every time
FixedAnswers == {[q \in Queries |-> {a[q]}] : a \in [Queries -> Responses]}

\* a provider that may also find any query malformed
MalformedAnswer == [q \in Queries |-> Responses \cup {Structural}]

Init == InitRun(AnyAnswer)

Next ==
    \/ BeginRow
    \/ geocode
    \/ AfterLookup
    \/ Pause
    \/ Finish
    \/ Interrupt
    \/ clean_cache

Spec == Init /\ [][Next]_vars

\* main.py left to run: the one process takes its next step as long as it
\* has one (every sleep ends, every provider attempt is answered or times
\* out), and nobody interrupts it
NextLoop ==
    \/ BeginRow
    \/ geocode
    \/ AfterLookup
    \/ Pause
    \/ Finish

SpecLoop == Init /\ [][NextLoop]_vars /\ WF_vars(NextLoop)

\* main.py against a provider that may find a query malformed
InitMalformed == InitRun(MalformedAnswer)

SpecMalformed == InitMalformed /\ [][Next]_vars

InitTwice == \E answers \in FixedAnswers : InitRun(answers)

NextTwice ==
    \/ BeginRow
    \/ geocode
    \/ AfterLookup
    \/ Pause
    \/ Finish
    \/ Rerun

SpecTwice == InitTwice /\ [][NextTwice]_vars

(***************************************************************************)
(* 00.basic_model.py: the same loop and fallback; geocode retries three    *)
(* times and caches whatever the provider answered, and the loop pauses    *)
(* for --delay seconds.                                                    *)
(***************************************************************************)
\* max_retries = 3
max_retries == 3

\* the default of --delay, in seconds
delay == 1

basic_geocode == Attempt(max_retries, TRUE)

\* geocode_cache = load_cache() as the module is run: a missing file gives
\* the empty cache, a corrupt one makes json.load raise and the process
\* ends before main is called
basic_load_cache ==
    /\ UNCHANGED pool_vars
    /\ pc = "import"
    /\ IF LoadRaises(cache_file)
       THEN /\ pc' = "load_error"
            /\ UNCHANGED geocode_cache
       ELSE /\ geocode_cache' = load_cache(cache_file)
            /\ pc' = "loop"
    /\ UNCHANGED <<df, provider, cache_file, results, index, frame, ret,
                   lookups, provider_log, recent, calls, run, first_results,
                   first_calls, first_unmatched>>

\* time.sleep(args.delay) at the end of the loop body
BasicPause ==
    /\ UNCHANGED pool_vars
    /\ pc = "pause"
    /\ recent' = Elapse(recent, delay)
    /\ index' = index + 1
    /\ pc' = "loop"
    /\ UNCHANGED <<df, provider, geocode_cache, cache_file, results, frame, ret,
                   lookups, provider_log, calls, run, first_results,
                   first_calls, first_unmatched>>

\* the script is started: geocode_cache = {} and nothing is loaded yet
InitBasic ==
    /\ df \in Inputs
    /\ provider = AnyAnswer
    /\ cache_file \in InitialFiles
    /\ geocode_cache = EmptyCache
    /\ results = <<>>
    /\ pc = "import"
    /\ index = 1
    /\ frame = NoFrame
    /\ ret = NonePair
    /\ lookups = <<>>
    /\ provider_log = <<>>
    /\ recent = <<>>
    /\ calls = 0
    /\ run = 1
    /\ first_results = <<>>
    /\ first_calls = 0
    /\ first_unmatched = FALSE
    /\ workers = <<>>
    /\ next_task = 0
    /\ returned = <<>>
    /\ gathered = <<>>
    /\ asked = <<>>
    /\ computed = <<>>

NextBasic ==
    \/ basic_load_cache
    \/ BeginRow
    \/ basic_geocode
    \/ AfterLookup
    \/ BasicPause
    \/ Finish

SpecBasic == InitBasic /\ [][NextBasic]_vars

(***************************************************************************)
(* 01.advanced_model.py: main splits the rows into one chunk per process   *)
(* and a pool of worker processes geocodes the chunks.  Every worker is a  *)
(* process of its own: it holds its own copy of geocode_cache and of the   *)
(* state of the rate limiter, and shares only the cache file and the       *)
(* provider with the others.                                               *)
(***************************************************************************)
\* cpu_count(), on a machine with two cores
NumProcs == 2

\* CALLS = 1
CALLS == 1

Workers == 1..NumProcs

Min(a, b) == IF a <= b THEN a ELSE b

\* the positions in df of the rows of chunk k of np.array_split(df, n):
\* the first Len(df) % n chunks hold one row more than the others
ChunkRows(rows, n, k) ==
    LET q     == Len(rows) \div n
        r     == Len(rows) % n
        first == (k - 1) * q + Min(k - 1, r) + 1
        size  == q + (IF k <= r THEN 1 ELSE 0)
    IN  [j \in 1..size |-> first + j - 1]

\* the keys of geocode_cache that can occur
Keys == Addresses \cup Postcodes

IdleWorker(cache) ==
    [pc |-> "idle", cache |-> cache, task |-> 0, row |-> 0, out |-> <<>>,
     location |-> <<>>, is_postcode |-> FALSE, tried |-> <<>>,
     num_calls |-> 0, since_reset |-> 0, sleep_left |-> 0]

Whitespace == {" "}

\* address.strip()
Strip(s) ==
    LET kept == {i \in 1..Len(s) : s[i] \notin Whitespace}
    IN  IF kept = {} THEN <<>>
        ELSE SubSeq(s, CHOOSE i \in kept : \A j \in kept : i <= j,
                       CHOOSE i \in kept : \A j \in kept : j <= i)

\* the test of validate_address for an address read as a string: a blank
\* one raises ValueError
Invalid(address) == Strip(address) = <<>>

validate_address(address) == Strip(address)

\* an address cell holding only white space
AddrBlank == <<" ">>

\* a row as read from the CSV file, before the postcode column is added
RawRow(address) == [address |-> address, postcode |-> NoPostcode]

PoolInputs ==
    UNION {[1..n -> {RawRow(a) : a \in Addresses \cup {AddrBlank}}] :
                n \in 1..MaxRows}

\* cache files the pool run may find at start
PoolFiles ==
    {MissingFile, CorruptFile,
     save_cache(CachePut(EmptyCache, AddrBarePostcode, <<"51.5", "-0.1">>))}

\* the pair the step from worker record `me` to `after` made
\* geocode_with_fallback return for the row me was at, if it returned
Computed(me, after) ==
    IF after.row = me.row + 1
    THEN LET r == ChunkRows(df, NumProcs, me.task)[me.row]
         IN  [i \in DOMAIN computed \cup {r} |->
                IF i = r THEN after.out[Len(after.out)] ELSE computed[i]]
    ELSE computed

\* the answer of the decorated geocode for a provider response: the body
\* returns the match, and (None, None) for a no-match and from its own
\* except clause for a transient error, so on_exception sees no exception
GeocodeResult(response) ==
    IF response.kind = "match" THEN response.point ELSE NonePair

\* the address of the row worker record `me` is at
RowAddress(me) == df[ChunkRows(df, NumProcs, me.task)[me.row]].address

\* geocode_with_fallback returns `result` for the worker's row and
\* chunk.apply moves to the next row
Settle(me, result) ==
    [me EXCEPT !.pc = "row", !.row = @ + 1,
               !.out = Append(@, <<result[1], result[2]>>),
               !.location = <<>>, !.is_postcode = FALSE]

\* the worker must ask the provider for location: it goes to the limiter
Miss(me, location, is_postcode) ==
    [me EXCEPT !.pc = "limit", !.location = location,
               !.is_postcode = is_postcode]

\* geocode_with_cache(row['address'], is_postcode=False): a cached address
\* is the row's result at once
LookAddress(me) ==
    IF RowAddress(me) \in DOMAIN me.cache
    THEN Settle(me, me.cache[RowAddress(me)])
    ELSE Miss(me, RowAddress(me), FALSE)

\* geocode_with_fallback after a lookup returned `result`: a postcode
\* result that is not usable falls back to the address
Fallback(me, result, is_postcode) ==
    IF is_postcode /\ ~Usable(result[1], result[2])
    THEN LookAddress(me)
    ELSE Settle(me, result)

\* the state of the wrapper of @limits when worker record `me` calls
\* geocode: a window that has run out is reset, and the call is counted
Limited(me) ==
    LET remaining == RATE_LIMIT - me.since_reset
        expired   == remaining <= 0
    IN  [remaining   |-> remaining,
         num_calls   |-> (IF expired THEN 0 ELSE me.num_calls) + 1,
         since_reset |-> IF expired THEN 0 ELSE me.since_reset]

\* an idle worker takes the next chunk from the pool's task queue
TakeTask(w) ==
    /\ pc = "imap"
    /\ workers[w].pc = "idle"
    /\ next_task <= NumProcs
    /\ workers' = [workers EXCEPT ![w] =
            [@ EXCEPT !.pc = "row", !.task = next_task, !.row = 1, !.out = <<>>]]
    /\ next_task' = next_task + 1
    /\ UNCHANGED <<df, provider, cache_file, recent, returned, gathered, asked,
                   computed>>
    /\ UNCHANGED loop_vars

\* chunk.apply takes the next row and geocode_with_fallback runs until it
\* returns from the worker's cache or needs the provider
StartRow(w) ==
    LET me   == workers[w]
        rows == ChunkRows(df, NumProcs, me.task)
    IN  /\ me.pc = "row"
        /\ me.row <= Len(rows)
        /\ LET row   == df[rows[me.row]]
               fresh == [me EXCEPT !.tried = <<>>]
               after == IF ~HasPostcode(row) THEN LookAddress(fresh)
                        ELSE IF row.postcode \in DOMAIN me.cache
                             THEN Fallback(fresh, me.cache[row.postcode], TRUE)
                             ELSE Miss(fresh, row.postcode, TRUE)
           IN  /\ workers' = [workers EXCEPT ![w] = after]
               /\ computed' = Computed(me, after)
        /\ UNCHANGED <<df, provider, cache_file, recent, next_task, returned,
                       gathered, asked>>
        /\ UNCHANGED loop_vars

\* the call is over the limit: RateLimitException, and sleep_and_retry
\* sleeps for the rest of the window before it calls again
Throttle(w) ==
    LET me  == workers[w]
        lim == Limited(me)
    IN  /\ me.pc = "limit"
        /\ lim.num_calls > CALLS
        /\ workers' = [workers EXCEPT ![w] =
                [me EXCEPT !.num_calls = lim.num_calls,
                           !.since_reset = lim.since_reset,
                           !.pc = "sleep", !.sleep_left = lim.remaining]]
        /\ UNCHANGED <<df, provider, cache_file, recent, next_task, returned,
                       gathered, asked, computed>>
        /\ UNCHANGED loop_vars

\* the sleep of sleep_and_retry is over
Wake(w) ==
    /\ workers[w].pc = "sleep"
    /\ workers[w].sleep_left = 0
    /\ workers' = [workers EXCEPT ![w] = [@ EXCEPT !.pc = "limit"]]
    /\ UNCHANGED <<df, provider, cache_file, recent, next_task, returned,
                   gathered, asked, computed>>
    /\ UNCHANGED loop_vars

\* the call is within the limit: geocode asks the provider once,
\* geocode_with_cache stores the answer in the worker's cache and dumps that
\* cache over the cache file, and geocode_with_fallback goes on
Call(w) ==
    LET me  == workers[w]
        lim == Limited(me)
    IN  /\ me.pc = "limit"
        /\ lim.num_calls <= CALLS
        /\ \E response \in provider[Query(me.location, me.is_postcode)] :
            LET result == GeocodeResult(response)
                stored == [me EXCEPT
                            !.num_calls = lim.num_calls,
                            !.since_reset = lim.since_reset,
                            !.tried = <<response.kind>>,
                            !.cache = CachePut(@, me.location, result)]
                after  == Fallback(stored, result, me.is_postcode)
            IN  /\ workers' = [workers EXCEPT ![w] = after]
                /\ computed' = Computed(me, after)
                /\ cache_file' = save_cache(stored.cache)
        /\ asked' = [asked EXCEPT ![me.location] = @ + 1]
        /\ recent' = Append(recent, 0)
        /\ UNCHANGED <<df, provider, next_task, returned, gathered>>
        /\ UNCHANGED loop_vars

\* process_chunk returns the results of its chunk
FinishTask(w) ==
    LET me == workers[w]
    IN  /\ me.pc = "row"
        /\ me.row > Len(ChunkRows(df, NumProcs, me.task))
        /\ returned' = [returned EXCEPT ![me.task] =
                [done |-> TRUE, out |-> me.out,
                 rank |-> Cardinality({k \in 1..NumProcs : returned[k].done})]]
        /\ workers' = [workers EXCEPT ![w] =
                [me EXCEPT !.pc = "idle", !.task = 0, !.row = 0, !.out = <<>>,
                           !.tried = <<>>]]
        /\ UNCHANGED <<df, provider, cache_file, recent, next_task, gathered, asked,
                       computed>>
        /\ UNCHANGED loop_vars

\* the results yielded as soon as their chunk is finished, in any order
YieldsAnyFinished(k) == \A j \in 1..Len(gathered) : gathered[j] # k

\* pool.imap yields the chunk results in the order of the chunks: the next
\* one is that of the chunk after the last one yielded
Yields(k) == k = Len(gathered) + 1

\* main appends the next result pool.imap yields
Gather ==
    /\ pc = "imap"
    /\ \E k \in 1..NumProcs :
        /\ Yields(k)
        /\ returned[k].done
        /\ gathered' = Append(gathered, k)
    /\ UNCHANGED <<df, provider, cache_file, recent, workers, next_task,
                   returned, asked, computed>>
    /\ UNCHANGED loop_vars

RECURSIVE Concat(_)
\* pd.concat of the chunk results in the order main appended them
Concat(chunks) ==
    IF chunks = <<>> THEN <<>>
    ELSE returned[Head(chunks)].out \o Concat(Tail(chunks))

\* every chunk has been yielded: df = pd.concat(results)
Assemble ==
    /\ pc = "imap"
    /\ Len(gathered) = NumProcs
    /\ results' = Concat(gathered)
    /\ pc' = "assembled"
    /\ UNCHANGED <<df, provider, geocode_cache, cache_file, index, frame, ret,
                   lookups, provider_log, recent, calls, run, first_results,
                   first_calls, first_unmatched>>
    /\ UNCHANGED pool_vars

\* one unit of time passes for every process
Tick ==
    /\ pc = "imap"
    /\ recent' = Elapse(recent, 1)
    /\ workers' = [w \in Workers |->
            [workers[w] EXCEPT
                !.since_reset = Min(@ + 1, RATE_LIMIT),
                !.sleep_left = IF @ > 0 THEN @ - 1 ELSE 0]]
    /\ UNCHANGED <<df, provider, cache_file, next_task, returned, gathered, asked,
                   computed>>
    /\ UNCHANGED loop_vars

\* the module body runs: joblib.load reads the cache file; it gives the
\* empty cache for a missing file and raises for a corrupt one, which ends
\* the process
import_module ==
    /\ pc = "import"
    /\ IF LoadRaises(cache_file)
       THEN /\ pc' = "load_error"
            /\ UNCHANGED geocode_cache
       ELSE /\ geocode_cache' = load_cache(cache_file)
            /\ pc' = "main"
    /\ UNCHANGED <<df, provider, cache_file, results, index, frame, ret,
                   lookups, provider_log, recent, calls, run, first_results,
                   first_calls, first_unmatched>>
    /\ UNCHANGED pool_vars

\* main up to the pool: every address is validated (a ValueError of
\* validate_address leaves df['address'].apply and main, which do not catch
\* it), the postcodes are extracted, the rows are split and the pool is
\* forked, each worker with a copy of the module's state
StartPool ==
    /\ pc = "main"
    /\ IF \E i \in 1..Len(df) : Invalid(df[i].address)
       THEN /\ pc' = "ValueError"
            /\ UNCHANGED <<df, workers>>
       ELSE /\ df' = [i \in 1..Len(df) |-> Row(validate_address(df[i].address))]
            /\ workers' = [w \in Workers |-> IdleWorker(geocode_cache)]
            /\ pc' = "imap"
    /\ UNCHANGED <<provider, geocode_cache, cache_file, results, index, frame,
                   ret, lookups, provider_log, recent, calls, run,
                   first_results, first_calls, first_unmatched>>
    /\ UNCHANGED <<next_task, returned, gathered, asked, computed>>

\* the script is started on a CSV file and a cache file
InitPool ==
    /\ df \in PoolInputs
    /\ provider = AnyAnswer
    /\ cache_file \in PoolFiles
    /\ geocode_cache = EmptyCache
    /\ results = <<>>
    /\ pc = "import"
    /\ index = 1
    /\ frame = NoFrame
    /\ ret = NonePair
    /\ lookups = <<>>
    /\ provider_log = <<>>
    /\ recent = <<>>
    /\ calls = 0
    /\ run = 1
    /\ first_results = <<>>
    /\ first_calls = 0
    /\ first_unmatched = FALSE
    /\ workers = [w \in Workers |-> IdleWorker(EmptyCache)]
    /\ next_task = 1
    /\ returned = [k \in 1..NumProcs |-> [done |-> FALSE, out |-> <<>>, rank |-> 0]]
    /\ gathered = <<>>
    /\ asked = [k \in Keys |-> 0]
    /\ computed = <<>>

NextPool ==
    \/ import_module
    \/ StartPool
    \/ \E w \in Workers : TakeTask(w)
    \/ \E w \in Workers : StartRow(w)
    \/ \E w \in Workers : Throttle(w)
    \/ \E w \in Workers : Wake(w)
    \/ \E w \in Workers : Call(w)
    \/ \E w \in Workers : FinishTask(w)
    \/ Gather
    \/ Assemble
    \/ Tick

SpecPool == InitPool /\ [][NextPool]_vars

(***************************************************************************)
(* The postcode column: main reads the CSV file and applies                *)
(* extract_postcode to every address.  The addresses explored are every    *)
(* text of up to MaxLen characters over a small alphabet (a letter the     *)
(* final pair allows, one it excludes, a digit, a space, a lower-case      *)
(* letter) and texts that hold two postcode-like parts.                    *)
(***************************************************************************)
Alphabet == {"E", "C", "1", " ", "a"}

ShortAddresses == UNION {[1..n -> Alphabet] : n \in 1..MaxLen}

PostcodeLike ==
    {<<"E","1"," ","1","E","E">>, <<"C","1"," ","1","E","E">>,
     <<"E","1"," ","1","E","C">>, <<"E","C","1","1"," ","1","E","E">>}

TwoPartAddresses ==
    {a \o sep \o b : a \in PostcodeLike, b \in PostcodeLike,
                     sep \in {<<" ">>, <<"a">>, <<" ", "a", " ">>}}

ExtractInputs == ShortAddresses \cup TwoPartAddresses

\* df['postcode'] = df['address'].apply(extract_postcode)
extract_postcodes ==
    /\ pc = "read"
    /\ df' = [i \in 1..Len(df) |-> Row(df[i].address)]
    /\ pc' = "extracted"
    /\ UNCHANGED <<provider, geocode_cache, cache_file, results, index, frame,
                   ret, lookups, provider_log, recent, calls, run,
                   first_results, first_calls, first_unmatched>>
    /\ UNCHANGED pool_vars

\* main has read a CSV file of one row
InitExtract ==
    /\ df \in {<<RawRow(a)>> : a \in ExtractInputs}
    /\ provider = AnyAnswer
    /\ cache_file = MissingFile
    /\ geocode_cache = load_cache(cache_file)
    /\ results = <<>>
    /\ pc = "read"
    /\ index = 1
    /\ frame = NoFrame
    /\ ret = NonePair
    /\ lookups = <<>>
    /\ provider_log = <<>>
    /\ recent = <<>>
    /\ calls = 0
    /\ run = 1
    /\ first_results = <<>>
    /\ first_calls = 0
    /\ first_unmatched = FALSE
    /\ workers = <<>>
    /\ next_task = 0
    /\ returned = <<>>
    /\ gathered = <<>>
    /\ asked = <<>>
    /\ computed = <<>>

NextExtract == extract_postcodes

SpecExtract == InitExtract /\ [][NextExtract]_vars

(***************************************************************************)
(* Properties of main.py.                                                  *)
(***************************************************************************)
RowDone == pc = "pause"

CurrentRow == df[index]

FirstLookup == lookups[1]

LastLookup == lookups[Len(lookups)]

Present(pair) == pair[1] # None /\ pair[2] # None

\* C1: when the row has a postcode and the postcode lookup yields a pair
\* with both components present, whatever their values, that pair is the
\* row's result and the provider is never asked for the raw address.
C1_PostcodeResultReturned ==
    (RowDone /\ HasPostcode(CurrentRow) /\ Present(FirstLookup.result))
        => /\ results[Len(results)] = FirstLookup.result
           /\ \A k \in 1..Len(provider_log) : provider_log[k].is_postcode

\* C2: when the row has no postcode, or its postcode lookup yields the
\* absent pair, the raw address is looked up (the cache first, the provider
\* on a miss, with the address unqualified as the query) and the row's
\* result is exactly what that lookup returned.
C2_FallbackToAddress ==
    (RowDone /\ (~HasPostcode(CurrentRow) \/ FirstLookup.result = NonePair))
        => /\ ~LastLookup.is_postcode
           /\ LastLookup.location = CurrentRow.address
           /\ results[Len(results)] = LastLookup.result
           /\ LastLookup.hit =>
                /\ CurrentRow.address \in DOMAIN geocode_cache
                /\ LastLookup.result = geocode_cache[CurrentRow.address]
                /\ \A k \in 1..Len(provider_log) : provider_log[k].is_postcode
           /\ ~LastLookup.hit =>
                \E k \in 1..Len(provider_log) : ~provider_log[k].is_postcode
           /\ \A k \in 1..Len(provider_log) :
                ~provider_log[k].is_postcode =>
                    provider_log[k].query = CurrentRow.address

\* a row without a postcode, and a row whose postcode was not found, each
\* answered by a provider call for the address
C2_Witness ==
    /\ RowDone
    /\ HasPostcode(CurrentRow)
    /\ FirstLookup.result = NonePair
    /\ ~FirstLookup.hit
    /\ Len(lookups) = 2
    /\ ~LastLookup.hit
    /\ Present(LastLookup.result)

AllTransient(lookup) ==
    /\ lookup.responses # <<>>
    /\ \A j \in 1..Len(lookup.responses) : lookup.responses[j] = "transient"

\* C3: a lookup of an uncached location on which every provider attempt
\* raised a transient error made exactly MAX_RETRIES attempts, returned the
\* absent pair, and slept 1, 2, 4, ... between attempts, each delay at least
\* the one before.
C3_RetryExhaustion ==
    \A k \in 1..Len(lookups) :
        AllTransient(lookups[k]) =>
            /\ ~lookups[k].hit
            /\ Len(lookups[k].responses) = MAX_RETRIES
            /\ lookups[k].result = NonePair
            /\ Len(lookups[k].delays) = MAX_RETRIES - 1
            /\ \A j \in 1..Len(lookups[k].delays) :
                /\ lookups[k].delays[j] = 2 ^ (j - 1)
                /\ j > 1 => lookups[k].delays[j] >= lookups[k].delays[j - 1]

C3_Witness ==
    /\ pc = "returned"
    /\ AllTransient(LastLookup)
    /\ LastLookup.result = NonePair

\* C4: no window of RATE_LIMIT seconds holds more than one provider attempt.
C4_OneAttemptPerWindow == Len(recent) <= 1

C8_CacheSavedOnEveryExit ==
    pc \in {"done", "aborted"} =>
        \A k \in DOMAIN geocode_cache : <<k, geocode_cache[k]>> \in cache_file.items

\* C9: a key mapped to a found pair keeps that value in every later state.
C9_FoundEntriesStay ==
    [][\A k \in DOMAIN geocode_cache :
         Present(geocode_cache[k]) =>
            /\ k \in DOMAIN geocode_cache'
            /\ geocode_cache'[k] = geocode_cache[k]]_vars

\* clean_cache has run after geocode cached a found pair with a zero
\* component (only clean_cache writes the file before the loop ends), and
\* the pair is still cached
C9_Witness ==
    /\ pc = "loop"
    /\ \E k \in DOMAIN geocode_cache \ {AddrBarePostcode} :
        /\ geocode_cache[k] = <<"51.5", "0.0">>
        /\ <<k, geocode_cache[k]>> \in cache_file.items

Holds(responses, kind) == \E j \in 1..Len(responses) : responses[j] = kind

\* C11: a structural (malformed-query) failure of the provider is not
\* retried: the lookup it answers ends with that one attempt and the absent
\* pair, and the run goes on.
C11_StructuralNotRetried ==
    /\ ~Holds(frame.responses, "structural")
    /\ \A k \in 1..Len(lookups) :
        Holds(lookups[k].responses, "structural") =>
            /\ Len(lookups[k].responses) = 1
            /\ lookups[k].result = NonePair

\* C12: a clean no-match ends the lookup at once: it is the last attempt of
\* its lookup, the lookup returns the absent pair, and no delay is slept
\* after it (the delays are those of the failed attempts before it).
C12_NoMatchReturnsAtOnce ==
    /\ ~Holds(frame.responses, "nomatch")
    /\ \A k \in 1..Len(lookups) :
        LET l == lookups[k]
        IN  Holds(l.responses, "nomatch") =>
                /\ l.responses[Len(l.responses)] = "nomatch"
                /\ \A j \in 1..(Len(l.responses) - 1) : l.responses[j] # "nomatch"
                /\ l.result = NonePair
                /\ Len(l.delays) = Len(l.responses) - 1

\* a no-match on the second attempt, after one failed attempt
C12_Witness ==
    /\ pc = "returned"
    /\ LastLookup.responses = <<"transient", "nomatch">>
    /\ LastLookup.delays = <<1>>
    /\ LastLookup.result = NonePair

(***************************************************************************)
(* Properties of 00.basic_model.py.                                        *)
(***************************************************************************)
\* C10: when geocode returns after a cache miss, geocode_cache maps the
\* location to the returned result, whatever the outcome.
C10_MissResultCached ==
    (pc = "returned" /\ ~LastLookup.hit)
        => /\ LastLookup.location \in DOMAIN geocode_cache
           /\ geocode_cache[LastLookup.location] = LastLookup.result

\* C15: a step of clean_cache removes exactly the entries with an absent
\* latitude or longitude, leaves the other entries as they were, writes the
\* resulting cache to the file, and a second application would change
\* neither the cache nor the file.
C15_CleanCacheRemovesAbsent ==
    [][clean_cache =>
        /\ DOMAIN geocode_cache' =
                {k \in DOMAIN geocode_cache :
                    geocode_cache[k][1] # None /\ geocode_cache[k][2] # None}
        /\ \A k \in DOMAIN geocode_cache' : geocode_cache'[k] = geocode_cache[k]
        /\ cache_file'.status = "ok"
        /\ cache_file'.items =
                {<<k, geocode_cache'[k]>> : k \in DOMAIN geocode_cache'}
        /\ CleanedCache(geocode_cache') = geocode_cache'
        /\ save_cache(CleanedCache(geocode_cache')) = cache_file']_vars

\* the first row was answered (None, None) from the cache without a
\* provider attempt, the second row's address was found and cached, and
\* clean_cache then ran: the not-found entry is gone, the found one is kept
\* and the file holds the cleaned cache
C15_Witness ==
    /\ pc = "loop"
    /\ index = 3
    /\ df[1].address = AddrBarePostcode
    /\ df[2].address = AddrNoPostcode
    /\ results[1] = NonePair
    /\ Len(lookups) = 1
    /\ calls = Len(lookups[1].responses)
    /\ AddrBarePostcode \notin DOMAIN geocode_cache
    /\ AddrNoPostcode \in DOMAIN geocode_cache
    /\ geocode_cache[AddrNoPostcode] = results[2]
    /\ cache_file = save_cache(geocode_cache)

\* provider attempts are bounded: a geocode call in progress has made fewer
\* than MAX_RETRIES of them, a finished one at most MAX_RETRIES (none on a
\* cache hit) and returned a pair, and the run at most 2 * n * MAX_RETRIES
AttemptsBounded ==
    /\ Len(frame.responses) < MAX_RETRIES
    /\ \A k \in 1..Len(lookups) :
        /\ Len(lookups[k].responses) <= MAX_RETRIES
        /\ lookups[k].hit => Len(lookups[k].responses) = 0
        /\ lookups[k].result \in {NonePair} \cup Points \cup StoredValues
    /\ Len(lookups) <= 2
    /\ calls <= 2 * Len(df) * MAX_RETRIES

\* C19: whatever the provider answers, every geocode call returns a pair
\* after at most MAX_RETRIES provider attempts (none on a cache hit), the run
\* makes at most 2 * n * MAX_RETRIES attempts for its n rows, and the
\* geocoding loop comes to its end.
C19_LoopEndsWithinBound == []AttemptsBounded /\ <>(pc = "done")

\* the bound is met: both lookups of both rows used up their attempts
C19_Witness ==
    /\ pc = "done"
    /\ Len(df) = 2
    /\ calls = 2 * Len(df) * MAX_RETRIES
    /\ results = <<NonePair, NonePair>>

\* C14: loading the cache never raises: with the backing store missing or
\* corrupt the program goes on, with an empty cache until the first
\* provider attempt.
C14_LoadYieldsEmptyCache ==
    /\ pc # "load_error"
    /\ (cache_file.status \in {"missing", "corrupt"} /\ calls = 0) =>
            geocode_cache = EmptyCache

(***************************************************************************)
(* Properties of 01.advanced_model.py.                                     *)
(***************************************************************************)
\* C6: across all workers at most one provider call is made for a
\* postcode key: the workers whose rows share a postcode another worker
\* resolved see its result instead of asking again.
C6_SingleFlight == \A p \in Postcodes : asked[p] <= 1

\* C7: summed over all workers, no window of RATE_LIMIT seconds holds more
\* than CALLS provider attempts.
C7_ProcessWideLimit == Len(recent) <= CALLS

\* C13: a geocode call that has returned after a transient error on its
\* last attempt had made MAX_RETRIES attempts: with fewer, it tries again
\* instead of returning.
C13_TransientErrorRetried ==
    \A w \in Workers :
        LET tried == workers[w].tried
        IN  (tried # <<>> /\ tried[Len(tried)] = "transient") =>
                Len(tried) >= MAX_RETRIES

\* C16: the assembled output has one result per input row, and the result
\* at position i is the pair geocode_with_fallback returned for row i.
C16_OutputInRowOrder ==
    pc = "assembled" =>
        /\ Len(results) = Len(df)
        /\ DOMAIN computed = 1..Len(df)
        /\ \A i \in 1..Len(df) : results[i] = computed[i]

\* the second chunk was finished before the first, and the two rows have
\* different results
C16_Witness ==
    /\ pc = "assembled"
    /\ Len(df) = 2
    /\ returned[2].rank < returned[1].rank
    /\ computed[1] # computed[2]
    /\ results = <<computed[1], computed[2]>>

\* C17: a malformed row does not end the run: main never dies of the
\* ValueError of validate_address.
C17_MalformedRowFailsAlone == pc # "ValueError"

\* C20: when all workers have finished, the cache file holds every key a
\* worker asked the provider for and wrote during the run.
C20_FileHoldsEveryKey ==
    (\A k \in 1..NumProcs : returned[k].done) =>
        \A key \in DOMAIN asked :
            asked[key] > 0 => \E it \in cache_file.items : it[1] = key

(***************************************************************************)
(* Properties of extract_postcode.                                         *)
(***************************************************************************)
\* the letters a returned postcode may not end in
Ambiguous == {"C", "I", "K", "M", "O", "V"}

\* t has the postcode shape, read from its end: two upper-case letters that
\* are not ambiguous, before them a digit, before it a space, and before
\* the space an outward part of one or two upper-case letters, a digit and
\* at most one more upper-case letter or digit
Shaped(t) ==
    LET n   == Len(t)
        out == n - 4
        Alnum(c) == c \in UpperLetters \/ c \in Digits
    IN  /\ out \in 2..4
        /\ t[n] \in UpperLetters \ Ambiguous
        /\ t[n - 1] \in UpperLetters \ Ambiguous
        /\ t[n - 2] \in Digits
        /\ t[n - 3] = " "
        /\ t[1] \in UpperLetters
        /\ \/ out = 2 /\ t[2] \in Digits
           \/ out = 3 /\ t[2] \in Digits /\ Alnum(t[3])
           \/ out = 3 /\ t[2] \in UpperLetters /\ t[3] \in Digits
           \/ out = 4 /\ t[2] \in UpperLetters /\ t[3] \in Digits /\ Alnum(t[4])

\* the part of s from position k to position m has the postcode shape and
\* stands at word boundaries: no word character touches it on either side
OccursAt(s, k, m) ==
    /\ Shaped(SubSeq(s, k, m))
    /\ k = 1 \/ s[k - 1] \notin WordChars
    /\ m = Len(s) \/ s[m + 1] \notin WordChars

Occurrences(s) ==
    {o \in (1..Len(s)) \X (1..Len(s)) : o[1] <= o[2] /\ OccursAt(s, o[1], o[2])}

\* C18: the postcode extracted from an address is the first part of it
\* that has the postcode shape (letters and the optional character read as
\* upper-case letters and digits) at word boundaries, it is None when the
\* address has no such part, and it never ends in an ambiguous letter.
C18_ExtractsFirstPostcode ==
    pc = "extracted" =>
        LET address  == df[1].address
            postcode == df[1].postcode
            found    == Occurrences(address)
        IN  /\ found = {} => postcode = NoPostcode
            /\ found # {} =>
                \E o \in found :
                    /\ \A x \in found : o[1] <= x[1]
                    /\ postcode = SubSeq(address, o[1], o[2])
            /\ postcode # NoPostcode =>
                /\ postcode[Len(postcode)] \notin Ambiguous
                /\ postcode[Len(postcode) - 1] \notin Ambiguous

\* "C1 1EE E1 1EE": two different postcodes, the first one is extracted
C18_Witness ==
    /\ pc = "extracted"
    /\ df[1].address =
            <<"C","1"," ","1","E","E"," ","E","1"," ","1","E","E">>
    /\ df[1].postcode = <<"C","1"," ","1","E","E">>
    /\ Cardinality(Occurrences(df[1].address)) = 2

====
